---- MODULE Spec2Model ----
(***************************************************************************)
(* A model of the supervised summarisation core of app.py:                 *)
(* clean_text, the candidate filter, scoring, ranking, the redundancy      *)
(* aware selection loop and the order restoration of                       *)
(* generate_supervised_summary.                                            *)
(*                                                                         *)
(* Text is a sequence of one-character strings, so that len(), the regular *)
(* expressions of clean_text and substring tests are computed on the       *)
(* characters themselves.                                                  *)
(***************************************************************************)
EXTENDS Integers, Sequences, FiniteSets, TLC

VARIABLES
    supervised_model,       \* module global: None or the loaded classifier
    supervised_vectorizer,  \* module global: None or the loaded vectorizer
    raw_sentences,          \* nltk.sent_tokenize(text): the document's sentences
    num_sentences,          \* the parameter k
    pc,                     \* position inside generate_supervised_summary
    clean_sentences,
    valid_sentences,
    features,               \* one vector per valid sentence
    scores,                 \* one score per valid sentence
    ranked_indices,         \* 0-based indices, best score first
    pos,                    \* number of ranked candidates the loop has examined
    selected_indices,
    selected_vectors,
    final_indices,
    result,                 \* the returned list
    sentence,               \* the argument of score_sentence_categories
    category,               \* its return value, "" before it returns
    request,                \* the upload summarize() is serving
    handler_pc,             \* position inside summarize()
    status,                 \* HTTP status of the response, 0 before it is sent
    invoked,                \* the functions summarize() has called, in order
    other,                  \* the locals of a second request whose thread is suspended
    summary_sentences,      \* the argument of build_structured_summary
    structured_data         \* summarize()'s structured_data; the returned dict

vars == << supervised_model, supervised_vectorizer, raw_sentences, num_sentences,
           pc, clean_sentences, valid_sentences, features, scores, ranked_indices,
           pos, selected_indices, selected_vectors, final_indices, result,
           sentence, category, request, handler_pc, status, invoked, other,
           summary_sentences, structured_data >>

\* the module globals
globals == << supervised_model, supervised_vectorizer >>

\* the locals of generate_supervised_summary
genLocals == << raw_sentences, num_sentences, pc, clean_sentences, valid_sentences,
               features, scores, ranked_indices, pos, selected_indices,
               selected_vectors, final_indices, result >>

\* the locals of summarize()
handlerVars == << request, handler_pc, status, invoked >>

\* the argument and the result of build_structured_summary
structVars == << summary_sentences, structured_data >>

\* the variables outside generate_supervised_summary
outerVars == << sentence, category, handlerVars, other, structVars >>

NoRequest == [kind |-> "absent", handler_pc |-> "absent"]

\* generate_supervised_summary is called directly, not by a request
HandlerIdle ==
    /\ request = NoRequest
    /\ handler_pc = "none"
    /\ status = 0
    /\ invoked = << >>
    /\ other = NoRequest

\* structured_data = {} (line 899), as structured_data.get(key, default)
\* reads it
EmptyStructure ==
    [abstract |-> << >>, sections |-> << >>, implementation_points |-> << >>]

\* build_structured_summary has not been called
StructIdle == summary_sentences = << >> /\ structured_data = EmptyStructure

\* no call of score_sentence_categories and no request is in progress
OuterIdle == sentence = << >> /\ category = "" /\ HandlerIdle /\ StructIdle

-----------------------------------------------------------------------------
(* Bounds of the model *)

MaxSents == 3

MaxK == 3

MaxWords == 2

MaxBullets == 4

-----------------------------------------------------------------------------
(* Characters and character classes of Python's re module (ASCII part) *)

Digit == {"0", "1", "2", "3", "4", "5", "6", "7", "8", "9"}

Lower == {"a", "b", "c", "d", "e", "f", "g", "h", "i", "j", "k", "l", "m",
          "n", "o", "p", "q", "r", "s", "t", "u", "v", "w", "x", "y", "z"}

Upper == {"A", "B", "C", "D", "E", "F", "G", "H", "I", "J", "K", "L", "M",
          "N", "O", "P", "Q", "R", "S", "T", "U", "V", "W", "X", "Y", "Z"}

Alpha == Lower \cup Upper

Space == {" ", "\t", "\n", "\r"}

\* Python's None, as a record so that it compares with the artifact records
None == [none |-> TRUE]

Range(s) == {s[i] : i \in 1..Len(s)}

Rep(c, n) == [i \in 1..n |-> c]

\* The index just after the longest run of characters of class C that starts
\* at i (i itself when s[i] is not in C).
RunEnd(s, i, C) ==
    CHOOSE j \in i..(Len(s) + 1) :
        /\ \A m \in i..(j - 1) : s[m] \in C
        /\ (j = Len(s) + 1 \/ s[j] \notin C)

\* (\.\d+)* from index j: the index after the last dotted group.
RECURSIVE DotGroups(_, _)
DotGroups(s, j) ==
    IF j + 1 <= Len(s) /\ s[j] = "." /\ s[j + 1] \in Digit
    THEN DotGroups(s, RunEnd(s, j + 1, Digit))
    ELSE j

\* \d+(\.\d+)* from index i, where s[i] is a digit.
NumEnd(s, i) == DotGroups(s, RunEnd(s, i, Digit))

\* r'Page \d+' with re.IGNORECASE at index i: the index after the match, 0 if none.
MatchPage(s, i) ==
    IF /\ i + 5 <= Len(s)
       /\ s[i] \in {"P", "p"}
       /\ s[i + 1] \in {"A", "a"}
       /\ s[i + 2] \in {"G", "g"}
       /\ s[i + 3] \in {"E", "e"}
       /\ s[i + 4] = " "
       /\ s[i + 5] \in Digit
    THEN RunEnd(s, i + 5, Digit)
    ELSE 0

\* r'\d+(\.\d+)*\s+[A-Za-z\s\-]+:' at index i: the index after the match, 0 if
\* none.  After the number, the run of [A-Za-z\s\-] must begin with white
\* space, hold at least two characters and be followed by the colon.
MatchHeader(s, i) ==
    IF s[i] \notin Digit THEN 0
    ELSE LET j == NumEnd(s, i)
             e == RunEnd(s, j, Alpha \cup Space \cup {"-"})
         IN  IF /\ j <= Len(s)
                /\ s[j] \in Space
                /\ e - j >= 2
                /\ e <= Len(s)
                /\ s[e] = ":"
             THEN e + 1
             ELSE 0

RECURSIVE SubPage(_, _)
SubPage(s, i) ==
    IF i > Len(s) THEN << >>
    ELSE LET e == MatchPage(s, i)
         IN  IF e > 0 THEN SubPage(s, e) ELSE << s[i] >> \o SubPage(s, i + 1)

RECURSIVE SubHeader(_, _)
SubHeader(s, i) ==
    IF i > Len(s) THEN << >>
    ELSE LET e == MatchHeader(s, i)
         IN  IF e > 0 THEN SubHeader(s, e) ELSE << s[i] >> \o SubHeader(s, i + 1)

\* r'^\d+(\.\d+)*\s*' removed at the start of the string only.
SubLeadingNumber(s) ==
    IF Len(s) >= 1 /\ s[1] \in Digit
    THEN SubSeq(s, RunEnd(s, NumEnd(s, 1), Space), Len(s))
    ELSE s

\* re.sub(r'\s+', " ", text): every run of white space becomes one blank.
RECURSIVE CollapseSpace(_, _)
CollapseSpace(s, i) ==
    IF i > Len(s) THEN << >>
    ELSE IF s[i] \in Space
         THEN << " " >> \o CollapseSpace(s, RunEnd(s, i, Space))
         ELSE << s[i] >> \o CollapseSpace(s, i + 1)

\* str.strip()
Strip(s) ==
    LET keep == {i \in 1..Len(s) : s[i] \notin Space}
    IN  IF keep = {} THEN << >>
        ELSE SubSeq(s, CHOOSE a \in keep : \A b \in keep : a <= b,
                       CHOOSE a \in keep : \A b \in keep : a >= b)

clean_text(text) ==
    LET t1 == SubPage(text, 1)
        t2 == SubHeader(t1, 1)
        t3 == SubLeadingNumber(t2)
        t4 == CollapseSpace(t3, 1)
    IN  Strip(t4)

-----------------------------------------------------------------------------
(* Program constants *)

\* len(s) > 30
MinLen == 30

\* np.max(sims) > 0.70, kept as the fraction ThresholdNum / ThresholdDen
ThresholdNum == 7

ThresholdDen == 10

\* if len(orig_text) < 50
MinTextLen == 50

-----------------------------------------------------------------------------
(* The strings the function returns in place of a summary *)

\* "Error: Model not loaded. Check server logs."
MsgModelNotLoaded ==
    <<"E","r","r","o","r",":"," ","M","o","d","e","l"," ","n","o","t"," ",
      "l","o","a","d","e","d","."," ","C","h","e","c","k"," ","s","e","r",
      "v","e","r"," ","l","o","g","s",".">>

\* "No valid text found to summarize."
MsgNoValidText ==
    <<"N","o"," ","v","a","l","i","d"," ","t","e","x","t"," ","f","o","u",
      "n","d"," ","t","o"," ","s","u","m","m","a","r","i","z","e",".">>

\* "Error during model prediction."
MsgPredictionError ==
    <<"E","r","r","o","r"," ","d","u","r","i","n","g"," ","m","o","d","e",
      "l"," ","p","r","e","d","i","c","t","i","o","n",".">>

-----------------------------------------------------------------------------
(* The sentences a document is drawn from *)

\* 41 letters: vector direction (1,0,0)
SentA == Rep("a", 41)

\* 41 letters: vector direction (0,1,0)
SentB == Rep("b", 41)

\* 40 letters: vector direction (2,2,1), cosine 2/3 to SentA and to SentB
SentMixed == Rep("a", 16) \o Rep("b", 16) \o Rep("c", 8)

\* 41 characters, none alphabetic: the zero vector
SentSymbols == << "$" >> \o Rep("7", 40)

\* a page marker and 35 letters: cleaned to 35 letters, cosine 1 to SentA
SentPaged == << "P", "a", "g", "e", " ", "7" >> \o Rep("a", 35)

\* a section header and 30 letters: 38 characters, cleaned to 30
SentHeaded == << "1", ".", "2", " ", "a", "b", ":", " " >> \o Rep("a", 30)

RawSentences == {SentA, SentB, SentMixed, SentSymbols, SentPaged, SentHeaded}

Documents == UNION {[1..n -> RawSentences] : n \in 0..MaxSents}

(* A document of ten sentences of which six pass the filter *)

\* 41 letters: vector direction (0,0,1,0)
SentC == Rep("c", 41)

\* 41 letters: vector direction (0,0,0,1)
SentD == Rep("d", 41)

\* 32 letters, counts (18,6,6,2): cosine 0.9 to SentA, 0.3 to SentB and SentC
SentNearA == Rep("a", 18) \o Rep("b", 6) \o Rep("c", 6) \o Rep("d", 2)

\* too short to be candidates
SentShortA == Rep("a", 30)

SentShortB == Rep("b", 12)

\* a number alone: cleaned to the empty string
SentNumber == << "4", "2" >>

TenSentences ==
    << SentHeaded, SentB, SentShortA, SentNearA, SentC,
       SentNumber, SentA, SentSymbols, SentShortB, SentD >>

\* s rotated left by r places
Rotate(s, r) == [i \in 1..Len(s) |-> s[((i + r - 1) % Len(s)) + 1]]

Reverse(s) == [i \in 1..Len(s) |-> s[Len(s) + 1 - i]]

TenSentenceDocuments ==
    {Rotate(TenSentences, r) : r \in 0..9}
        \cup {Rotate(Reverse(TenSentences), r) : r \in 0..9}

-----------------------------------------------------------------------------
(* The pickled artifacts.  A vectorizer is its fitted flag and vocabulary   *)
(* (one feature per vocabulary term, the term's count in the sentence); a   *)
(* classifier is its coefficient vector, in hundredths, and whether it has  *)
(* a predict_proba method (LogisticRegression has; a classifier with only   *)
(* decision_function, such as LinearSVC, has not).                          *)

Vectorizers == { [fitted |-> TRUE,  vocabulary |-> << "a", "b", "c" >>],
                 [fitted |-> FALSE, vocabulary |-> << >>] }

Models == { [coef |-> << 0, 0, 0 >>, has_predict_proba |-> TRUE],
            [coef |-> << 1, 2, 0 >>, has_predict_proba |-> TRUE],
            [coef |-> << 1, 1 >>,    has_predict_proba |-> TRUE] }

Count(s, c) == Cardinality({i \in 1..Len(s) : s[i] = c})

\* supervised_vectorizer.transform(sentences)
transform(vectorizer, sentences) ==
    [i \in 1..Len(sentences) |->
        [j \in 1..Len(vectorizer.vocabulary) |->
            Count(sentences[i], vectorizer.vocabulary[j])]]

\* transform raises NotFittedError on a vectorizer that was never fitted
TransformRaises(vectorizer) == ~vectorizer.fitted

RECURSIVE DotFrom(_, _, _)
DotFrom(a, b, j) ==
    IF j > Len(a) THEN 0 ELSE a[j] * b[j] + DotFrom(a, b, j + 1)

Dot(a, b) == DotFrom(a, b, 1)

\* supervised_model.predict_proba raises AttributeError when the classifier
\* has no such method, ValueError when the feature width is not its own
PredictRaises(model, X) ==
    \/ ~model.has_predict_proba
    \/ \E i \in 1..Len(X) : Len(X[i]) # Len(model.coef)

\* the smallest and the largest of a sequence of numbers
MinOf(v) == CHOOSE x \in Range(v) : \A y \in Range(v) : x <= y

MaxOf(v) == CHOOSE x \in Range(v) : \A y \in Range(v) : x >= y

\* Variant: the decision values are min-max rescaled, in hundredths, equal
\* values all becoming 1
predict_rescaled(model, X) ==
    LET raw == [i \in 1..Len(X) |-> Dot(model.coef, X[i])]
    IN  [i \in 1..Len(X) |->
            IF MaxOf(raw) = MinOf(raw) THEN 100
            ELSE ((raw[i] - MinOf(raw)) * 100) \div (MaxOf(raw) - MinOf(raw))]

\* supervised_model.predict_proba(features)[:, 1], kept as the decision value
\* coef . x of which the probability is a strictly increasing function
predict_proba(model, X) == [i \in 1..Len(X) |-> Dot(model.coef, X[i])]

\* cosine_similarity(a, b) > num / den; a zero vector has similarity 0
CosineAbove(a, b, num, den) ==
    LET d == Dot(a, b)
    IN  /\ d > 0
        /\ d * d * den * den > num * num * Dot(a, a) * Dot(b, b)

\* Variant: the threshold is 0.65
MaxSimAbove065(current_vec, vectors) ==
    \E i \in 1..Len(vectors) : CosineAbove(current_vec, vectors[i], 13, 20)

\* Variant: the threshold is 0.90
MaxSimAbove090(current_vec, vectors) ==
    \E i \in 1..Len(vectors) : CosineAbove(current_vec, vectors[i], 9, 10)

\* np.max(cosine_similarity(current_vec, np.vstack(selected_vectors))) > 0.70
MaxSimAboveThreshold(current_vec, vectors) ==
    \E i \in 1..Len(vectors) :
        CosineAbove(current_vec, vectors[i], ThresholdNum, ThresholdDen)

\* Variant: the candidate is compared with the most recent accepted vector only
is_redundant_last_only(current_vec, vectors) ==
    /\ vectors # << >>
    /\ CosineAbove(current_vec, vectors[Len(vectors)], ThresholdNum, ThresholdDen)

\* Variant: the comparison is reversed (np.max(sims) < 0.70)
is_redundant_below(current_vec, vectors) ==
    /\ vectors # << >>
    /\ ~MaxSimAboveThreshold(current_vec, vectors)

\* is_redundant after lines 749-753
is_redundant(current_vec, vectors) ==
    vectors # << >> /\ MaxSimAboveThreshold(current_vec, vectors)

\* Variant: len(s) >= 30
KeepSentenceAtLeast(s) == Len(s) >= MinLen

\* if len(s) > 30
KeepSentence(s) == Len(s) > MinLen

\* the for loop that appends the kept sentences to valid_sentences
RECURSIVE FilterFrom(_, _, _)
FilterFrom(cs, i, acc) ==
    IF i > Len(cs) THEN acc
    ELSE FilterFrom(cs, i + 1, IF KeepSentence(cs[i]) THEN Append(acc, cs[i]) ELSE acc)

\* Variant: the loop never breaks
LoopNeverBreaks(selected, k) == FALSE

\* Variant: the loop breaks one acceptance early
LoopBreaksEarly(selected, k) == Len(selected) + 1 >= k

\* if len(selected_indices) >= num_sentences: break
LoopBreaks(selected, k) == Len(selected) >= k

\* Variant: the empty candidate list is not detected
NoValidSentencesSkipped(valid) == FALSE

\* if not valid_sentences
NoValidSentences(valid) == valid = << >>

\* Variant: np.argsort(scores) without the reversal
ArgsortAscending(sc) ==
    {p \in [1..Len(sc) -> 0..(Len(sc) - 1)] :
        /\ \A i, j \in 1..Len(sc) : i # j => p[i] # p[j]
        /\ \A i \in 1..(Len(sc) - 1) : sc[p[i] + 1] <= sc[p[i + 1] + 1]}

\* np.argsort(scores)[::-1]: the 0-based indices by descending score.  The
\* default sort kind is not stable, so equal scores may come in any order.
ArgsortDescending(sc) ==
    {p \in [1..Len(sc) -> 0..(Len(sc) - 1)] :
        /\ \A i, j \in 1..Len(sc) : i # j => p[i] # p[j]
        /\ \A i \in 1..(Len(sc) - 1) : sc[p[i] + 1] >= sc[p[i + 1] + 1]}

\* sorted(selected_indices), by insertion
RECURSIVE InsertSorted(_, _)
InsertSorted(x, s) ==
    IF s = << >> THEN << x >>
    ELSE IF x <= Head(s) THEN << x >> \o s
         ELSE << Head(s) >> \o InsertSorted(x, Tail(s))

RECURSIVE SortFrom(_, _, _)
SortFrom(s, i, acc) ==
    IF i > Len(s) THEN acc ELSE SortFrom(s, i + 1, InsertSorted(s[i], acc))

\* Variant: the accepted indices are returned in acceptance order
unsorted(s) == s

sorted(s) == SortFrom(s, 1, << >>)

-----------------------------------------------------------------------------
(* The state after the module is loaded, and one call of                    *)
(* generate_supervised_summary(text, num_sentences)                         *)

\* Lines 65-78: the model is unpickled first, so a vectorizer is never
\* loaded without a model.
Init ==
    /\ supervised_model \in {None} \cup Models
    /\ supervised_vectorizer \in {None} \cup Vectorizers
    /\ supervised_model = None => supervised_vectorizer = None
    /\ raw_sentences \in Documents
    /\ num_sentences \in 0..MaxK
    /\ pc = "check_loaded"
    /\ clean_sentences = << >>
    /\ valid_sentences = << >>
    /\ features = << >>
    /\ scores = << >>
    /\ ranked_indices = << >>
    /\ pos = 0
    /\ selected_indices = << >>
    /\ selected_vectors = << >>
    /\ final_indices = << >>
    /\ result = << >>
    /\ OuterIdle

\* A vectorizer fitted on four terms and a classifier on its features
FourTermVectorizer == [fitted |-> TRUE, vocabulary |-> << "a", "b", "c", "d" >>]

FourTermModel == [coef |-> << 6, 3, 2, 1 >>, has_predict_proba |-> TRUE]

\* A classifier with decision_function and no predict_proba
DecisionOnlyModel == [coef |-> << 6, 3, 2, 1 >>, has_predict_proba |-> FALSE]

\* The state after the module is loaded with those artifacts, and one call
\* on a ten-sentence document.
InitTenSentences ==
    /\ supervised_model \in {FourTermModel, DecisionOnlyModel}
    /\ supervised_vectorizer = FourTermVectorizer
    /\ raw_sentences \in TenSentenceDocuments
    /\ num_sentences \in 0..MaxK
    /\ pc = "check_loaded"
    /\ clean_sentences = << >>
    /\ valid_sentences = << >>
    /\ features = << >>
    /\ scores = << >>
    /\ ranked_indices = << >>
    /\ pos = 0
    /\ selected_indices = << >>
    /\ selected_vectors = << >>
    /\ final_indices = << >>
    /\ result = << >>
    /\ OuterIdle

\* if not supervised_model or not supervised_vectorizer: return [...]
CheckLoaded ==
    /\ pc = "check_loaded"
    /\ IF supervised_model = None \/ supervised_vectorizer = None
       THEN /\ result' = << MsgModelNotLoaded >>
            /\ pc' = "ret_not_loaded"
       ELSE /\ pc' = "split"
            /\ UNCHANGED result
    /\ UNCHANGED << outerVars, supervised_model, supervised_vectorizer, raw_sentences,
                    num_sentences, clean_sentences, valid_sentences, features,
                    scores, ranked_indices, pos, selected_indices,
                    selected_vectors, final_indices >>

\* clean_sentences = [clean_text(s) for s in raw_sentences]
SplitAndClean ==
    /\ pc = "split"
    /\ clean_sentences' = [i \in 1..Len(raw_sentences) |-> clean_text(raw_sentences[i])]
    /\ pc' = "filter"
    /\ UNCHANGED << outerVars, supervised_model, supervised_vectorizer, raw_sentences,
                    num_sentences, valid_sentences, features, scores,
                    ranked_indices, pos, selected_indices, selected_vectors,
                    final_indices, result >>

\* the length filter, and the return when nothing is left
FilterValid ==
    /\ pc = "filter"
    /\ valid_sentences' = FilterFrom(clean_sentences, 1, << >>)
    /\ IF NoValidSentences(valid_sentences')
       THEN /\ result' = << MsgNoValidText >>
            /\ pc' = "ret_no_valid"
       ELSE /\ pc' = "vectorize"
            /\ UNCHANGED result
    /\ UNCHANGED << outerVars, supervised_model, supervised_vectorizer, raw_sentences,
                    num_sentences, clean_sentences, features, scores,
                    ranked_indices, pos, selected_indices, selected_vectors,
                    final_indices >>

\* features = supervised_vectorizer.transform(valid_sentences), inside try
Vectorize ==
    /\ pc = "vectorize"
    /\ IF TransformRaises(supervised_vectorizer)
       THEN /\ pc' = "except"
            /\ UNCHANGED features
       ELSE /\ features' = transform(supervised_vectorizer, valid_sentences)
            /\ pc' = "predict"
    /\ UNCHANGED << outerVars, supervised_model, supervised_vectorizer, raw_sentences,
                    num_sentences, clean_sentences, valid_sentences, scores,
                    ranked_indices, pos, selected_indices, selected_vectors,
                    final_indices, result >>

\* scores = supervised_model.predict_proba(features)[:, 1], inside try
Predict ==
    /\ pc = "predict"
    /\ IF PredictRaises(supervised_model, features)
       THEN /\ pc' = "except"
            /\ UNCHANGED scores
       ELSE /\ scores' = predict_proba(supervised_model, features)
            /\ pc' = "rank"
    /\ UNCHANGED << outerVars, supervised_model, supervised_vectorizer, raw_sentences,
                    num_sentences, clean_sentences, valid_sentences, features,
                    ranked_indices, pos, selected_indices, selected_vectors,
                    final_indices, result >>

\* ranked_indices = np.argsort(scores)[::-1]; the two lists start empty
Rank ==
    /\ pc = "rank"
    /\ ranked_indices' \in ArgsortDescending(scores)
    /\ selected_indices' = << >>
    /\ selected_vectors' = << >>
    /\ pos' = 0
    /\ pc' = "loop"
    /\ UNCHANGED << outerVars, supervised_model, supervised_vectorizer, raw_sentences,
                    num_sentences, clean_sentences, valid_sentences, features,
                    scores, final_indices, result >>

\* one iteration of the for loop that does not break
SelectStep ==
    /\ pc = "loop"
    /\ pos < Len(ranked_indices)
    /\ ~LoopBreaks(selected_indices, num_sentences)
    /\ LET idx == ranked_indices[pos + 1]
           current_vec == features[idx + 1]
       IN  IF is_redundant(current_vec, selected_vectors)
           THEN UNCHANGED << selected_indices, selected_vectors >>
           ELSE /\ selected_indices' = Append(selected_indices, idx)
                /\ selected_vectors' = Append(selected_vectors, current_vec)
    /\ pos' = pos + 1
    /\ UNCHANGED << outerVars, supervised_model, supervised_vectorizer, raw_sentences,
                    num_sentences, pc, clean_sentences, valid_sentences,
                    features, scores, ranked_indices, final_indices, result >>

\* the loop ends (break, or ranked_indices exhausted); the accepted indices
\* are sorted and their sentences returned
RestoreOrder ==
    /\ pc = "loop"
    /\ pos = Len(ranked_indices) \/ LoopBreaks(selected_indices, num_sentences)
    /\ final_indices' = sorted(selected_indices)
    /\ result' = [i \in 1..Len(final_indices') |-> valid_sentences[final_indices'[i] + 1]]
    /\ pc' = "ret_summary"
    /\ UNCHANGED << outerVars, supervised_model, supervised_vectorizer, raw_sentences,
                    num_sentences, clean_sentences, valid_sentences, features,
                    scores, ranked_indices, pos, selected_indices,
                    selected_vectors >>

\* except Exception: return ["Error during model prediction."]
HandleException ==
    /\ pc = "except"
    /\ result' = << MsgPredictionError >>
    /\ pc' = "ret_error"
    /\ UNCHANGED << outerVars, supervised_model, supervised_vectorizer, raw_sentences,
                    num_sentences, clean_sentences, valid_sentences, features,
                    scores, ranked_indices, pos, selected_indices,
                    selected_vectors, final_indices >>

Next ==
    \/ CheckLoaded
    \/ SplitAndClean
    \/ FilterValid
    \/ Vectorize
    \/ Predict
    \/ Rank
    \/ SelectStep
    \/ RestoreOrder
    \/ HandleException

Spec == Init /\ [][Next]_vars

SpecTenSentences == InitTenSentences /\ [][Next]_vars

Returned == pc \in {"ret_not_loaded", "ret_no_valid", "ret_summary", "ret_error"}

-----------------------------------------------------------------------------
(* score_sentence_categories *)

UpperLetters == << "A", "B", "C", "D", "E", "F", "G", "H", "I", "J", "K", "L", "M",
                   "N", "O", "P", "Q", "R", "S", "T", "U", "V", "W", "X", "Y", "Z" >>

LowerLetters == << "a", "b", "c", "d", "e", "f", "g", "h", "i", "j", "k", "l", "m",
                   "n", "o", "p", "q", "r", "s", "t", "u", "v", "w", "x", "y", "z" >>

\* sentence.lower(), as a tuple of characters
lower(s) ==
    [i \in 1..Len(s) |->
        IF s[i] \in Upper
        THEN LowerLetters[CHOOSE n \in 1..26 : UpperLetters[n] = s[i]]
        ELSE s[i]] \o << >>

\* kw in s_lower
Contains(s, kw) ==
    \E i \in 1..(Len(s) - Len(kw) + 1) : SubSeq(s, i, i + Len(kw) - 1) = kw

\* the KEYWORDS dictionary, in its declaration order
KEYWORDS ==
   <<
      [cat |-> "key goals",
       keywords |-> <<
           <<"a","i","m">>, <<"g","o","a","l">>,
           <<"o","b","j","e","c","t","i","v","e">>,
           <<"t","a","r","g","e","t">>, <<"a","c","h","i","e","v","e">>,
           <<"r","e","d","u","c","e">>, <<"%">>, <<"2","0","2","5">>,
           <<"2","0","3","0">> >>],
      [cat |-> "policy principles",
       keywords |-> <<
           <<"p","r","i","n","c","i","p","l","e">>,
           <<"e","q","u","i","t","y">>,
           <<"u","n","i","v","e","r","s","a","l">>, <<"r","i","g","h","t">>,
           <<"a","c","c","e","s","s">>,
           <<"a","c","c","o","u","n","t","a","b","i","l","i","t","y">> >>],
      [cat |-> "service delivery",
       keywords |-> <<
           <<"h","o","s","p","i","t","a","l">>,
           <<"p","r","i","m","a","r","y"," ","c","a","r","e">>,
           <<"s","e","c","o","n","d","a","r","y"," ","c","a","r","e">>,
           <<"t","e","r","t","i","a","r","y">>,
           <<"r","e","f","e","r","r","a","l">>,
           <<"a","m","b","u","l","a","n","c","e">>,
           <<"e","m","e","r","g","e","n","c","y">> >>],
      [cat |-> "prevention & promotion",
       keywords |-> <<
           <<"p","r","e","v","e","n","t">>,
           <<"s","a","n","i","t","a","t","i","o","n">>,
           <<"n","u","t","r","i","t","i","o","n">>,
           <<"i","m","m","u","n","i","z","a","t","i","o","n">>,
           <<"t","o","b","a","c","c","o">>,
           <<"l","i","f","e","s","t","y","l","e">> >>],
      [cat |-> "human resources",
       keywords |-> <<
           <<"d","o","c","t","o","r">>, <<"n","u","r","s","e">>,
           <<"s","t","a","f","f">>, <<"t","r","a","i","n","i","n","g">>,
           <<"w","o","r","k","f","o","r","c","e">>,
           <<"r","e","c","r","u","i","t">>,
           <<"p","a","r","a","m","e","d","i","c">> >>],
      [cat |-> "financing & private sector",
       keywords |-> <<
           <<"f","u","n","d">>, <<"b","u","d","g","e","t">>,
           <<"f","i","n","a","n","c","e">>,
           <<"e","x","p","e","n","d","i","t","u","r","e">>,
           <<"i","n","s","u","r","a","n","c","e">>,
           <<"p","r","i","v","a","t","e">>, <<"p","p","p">>,
           <<"o","u","t","-","o","f","-","p","o","c","k","e","t">> >>],
      [cat |-> "digital health",
       keywords |-> <<
           <<"d","i","g","i","t","a","l">>,
           <<"t","e","c","h","n","o","l","o","g","y">>, <<"d","a","t","a">>,
           <<"r","e","c","o","r","d">>,
           <<"t","e","l","e","m","e","d","i","c","i","n","e">>,
           <<"o","n","l","i","n","e">> >>],
      [cat |-> "ayush integration",
       keywords |-> <<
           <<"a","y","u","s","h">>, <<"a","y","u","r","v","e","d","a">>,
           <<"y","o","g","a">>, <<"u","n","a","n","i">>,
           <<"s","i","d","d","h","a">>,
           <<"h","o","m","e","o","p","a","t","h","y">> >>],
      [cat |-> "implementation",
       keywords |-> <<
           <<"i","m","p","l","e","m","e","n","t">>,
           <<"s","t","r","a","t","e","g","y">>,
           <<"r","o","a","d","m","a","p">>, <<"m","o","n","i","t","o","r">>,
           <<"e","v","a","l","u","a","t","e">>,
           <<"f","r","a","m","e","w","o","r","k">> >>]
   >>

\* scores[cat]: the number of the category's keywords that occur in s_lower
CategoryScores(s_lower) ==
    [c \in 1..Len(KEYWORDS) |->
        Cardinality({n \in 1..Len(KEYWORDS[c].keywords) :
                        Contains(s_lower, KEYWORDS[c].keywords[n])})]

\* Variant: a later category of equal count replaces the best one
RECURSIVE MaxKeyLast(_, _, _)
MaxKeyLast(sc, c, best) ==
    IF c > Len(sc) THEN best
    ELSE MaxKeyLast(sc, c + 1, IF sc[c] >= sc[best] THEN c ELSE best)

\* max(scores, key=scores.get): the dictionary is scanned in order and a key
\* replaces the best one only when its value is greater
RECURSIVE MaxKey(_, _, _)
MaxKey(sc, c, best) ==
    IF c > Len(sc) THEN best
    ELSE MaxKey(sc, c + 1, IF sc[c] > sc[best] THEN c ELSE best)

score_sentence_categories(s) ==
    LET sc == CategoryScores(lower(s))
        best_cat == MaxKey(sc, 2, 1)
    IN  IF sc[best_cat] = 0 THEN "other" ELSE KEYWORDS[best_cat].cat

(* The sentences score_sentence_categories is applied to: up to MaxWords     *)
(* words separated by blanks.                                               *)

Words ==
    { <<"g","o","a","l">>,
      <<"a","i","m">>,
      <<"r","i","g","h","t">>,
      <<"h","o","s","p","i","t","a","l">>,
      <<"D","a","t","a">>,
      <<"r","e","c","o","r","d">>,
      <<"f","u","n","d">>,
      <<"2","0","3","0">>,
      <<"c","l","a","i","m">>,
      <<"c","o","p","y","r","i","g","h","t">>,
      <<"x","y","z">> }

RECURSIVE Join(_)
Join(ws) ==
    IF ws = << >> THEN << >>
    ELSE IF Len(ws) = 1 THEN ws[1]
         ELSE ws[1] \o << " " >> \o Join(Tail(ws))

WordSentences == {Join(ws) : ws \in UNION {[1..n -> Words] : n \in 0..MaxWords}}

InitCategories ==
    /\ supervised_model = None
    /\ supervised_vectorizer = None
    /\ raw_sentences = << >>
    /\ num_sentences = 0
    /\ pc = "categorize"
    /\ clean_sentences = << >>
    /\ valid_sentences = << >>
    /\ features = << >>
    /\ scores = << >>
    /\ ranked_indices = << >>
    /\ pos = 0
    /\ selected_indices = << >>
    /\ selected_vectors = << >>
    /\ final_indices = << >>
    /\ result = << >>
    /\ sentence \in WordSentences
    /\ category = ""
    /\ HandlerIdle
    /\ StructIdle

\* one call of score_sentence_categories(sentence)
Categorize ==
    /\ pc = "categorize"
    /\ category' = score_sentence_categories(sentence)
    /\ pc' = "categorized"
    /\ UNCHANGED << supervised_model, supervised_vectorizer, raw_sentences,
                    num_sentences, clean_sentences, valid_sentences, features,
                    scores, ranked_indices, pos, selected_indices,
                    selected_vectors, final_indices, result, sentence,
                    handlerVars, other, structVars >>

NextCategories == Categorize

SpecCategories == InitCategories /\ [][NextCategories]_vars

-----------------------------------------------------------------------------
(* build_structured_summary *)

\* the keys cat_map can get: the categories of KEYWORDS and "other"
CategoryNames == {KEYWORDS[c].cat : c \in 1..Len(KEYWORDS)} \cup {"other"}

\* the section_titles dictionary, in its declaration order
section_titles ==
    << [key |-> "key goals",                  title |-> "Key Goals & Targets"],
       [key |-> "policy principles",          title |-> "Policy Principles & Vision"],
       [key |-> "service delivery",           title |-> "Healthcare Delivery Systems"],
       [key |-> "prevention & promotion",     title |-> "Prevention & Wellness"],
       [key |-> "human resources",            title |-> "Workforce (HR)"],
       [key |-> "financing & private sector", title |-> "Financing & Costs"],
       [key |-> "digital health",             title |-> "Digital Interventions"],
       [key |-> "ayush integration",          title |-> "AYUSH / Traditional Medicine"],
       [key |-> "implementation",             title |-> "Implementation Strategy"],
       [key |-> "other",                      title |-> "Other Key Observations"] >>

\* the loop that appends each sentence to cat_map[category]; a key that was
\* never appended to reads as the empty list
RECURSIVE CatMapFrom(_, _, _)
CatMapFrom(ss, i, cm) ==
    IF i > Len(ss) THEN cm
    ELSE LET cat == score_sentence_categories(ss[i])
         IN  CatMapFrom(ss, i + 1, [cm EXCEPT ![cat] = Append(cm[cat], ss[i])])

cat_map(ss) == CatMapFrom(ss, 1, [k \in CategoryNames |-> << >>])

\* Variant: of equal elements the last one is kept
DedupKeepLast(l) ==
    LET keep == {i \in 1..Len(l) : \A j \in (i + 1)..Len(l) : l[j] # l[i]}
    IN  [n \in 1..Cardinality(keep) |->
            l[CHOOSE i \in keep : Cardinality({m \in keep : m <= i}) = n]]

RECURSIVE DedupFrom(_, _, _)
DedupFrom(l, i, acc) ==
    IF i > Len(l) THEN acc
    ELSE DedupFrom(l, i + 1,
                   IF l[i] \in Range(acc) THEN acc ELSE Append(acc, l[i]))

\* list(dict.fromkeys(l)): the first occurrence of each element, in order
Dedup(l) == DedupFrom(l, 1, << >>)

\* the loop over section_titles.items() that appends the non-empty sections
RECURSIVE SectionsFrom(_, _, _)
SectionsFrom(cm, n, sections) ==
    IF n > Len(section_titles) THEN sections
    ELSE LET k == section_titles[n].key
         IN  SectionsFrom(cm, n + 1,
                 IF cm[k] # << >>
                 THEN Append(sections, [title |-> section_titles[n].title,
                                        bullets |-> Dedup(cm[k])])
                 ELSE sections)

build_structured_summary(ss) ==
    LET cm == cat_map(ss)
        abstract_cands == cm["key goals"] \o cm["policy principles"] \o ss
        unique == Dedup(abstract_cands)
        first3 == SubSeq(unique, 1, IF Len(unique) < 3 THEN Len(unique) ELSE 3)
    IN  [abstract |-> Join(first3),
         sections |-> SectionsFrom(cm, 1, << >>),
         implementation_points |-> cm["implementation"]]

(* The lists build_structured_summary is applied to: up to MaxBullets        *)
(* sentences, repetitions included.                                         *)

SummarySentences ==
    { <<"g","o","a","l">>,
      <<"a","i","m">>,
      <<"r","i","g","h","t">>,
      <<"D","a","t","a">>,
      <<"m","o","n","i","t","o","r">>,
      <<"x","y","z">> }

SummaryLists == UNION {[1..n -> SummarySentences] : n \in 0..MaxBullets}

InitStructure ==
    /\ supervised_model = None
    /\ supervised_vectorizer = None
    /\ raw_sentences = << >>
    /\ num_sentences = 0
    /\ pc = "structure"
    /\ clean_sentences = << >>
    /\ valid_sentences = << >>
    /\ features = << >>
    /\ scores = << >>
    /\ ranked_indices = << >>
    /\ pos = 0
    /\ selected_indices = << >>
    /\ selected_vectors = << >>
    /\ final_indices = << >>
    /\ result = << >>
    /\ sentence = << >>
    /\ category = ""
    /\ HandlerIdle
    /\ summary_sentences \in SummaryLists
    /\ structured_data = EmptyStructure

\* one call of build_structured_summary(summary_sentences)
Structure ==
    /\ pc = "structure"
    /\ structured_data' = build_structured_summary(summary_sentences)
    /\ pc' = "structured"
    /\ UNCHANGED << globals, raw_sentences, num_sentences, clean_sentences,
                    valid_sentences, features, scores, ranked_indices, pos,
                    selected_indices, selected_vectors, final_indices, result,
                    sentence, category, handlerVars, other, summary_sentences >>

NextStructure == Structure

SpecStructure == InitStructure /\ [][NextStructure]_vars

-----------------------------------------------------------------------------
(* summarize(): the handler of POST /summarize *)

\* len(orig_text), the text being the sentences separated by one blank
RECURSIVE TextLen(_)
TextLen(doc) ==
    IF doc = << >> THEN 0
    ELSE IF Len(doc) = 1 THEN Len(doc[1])
         ELSE Len(doc[1]) + 1 + TextLen(Tail(doc))

\* Variant: a text of 49 characters is accepted
TooShortBelow49(doc) == TextLen(doc) < MinTextLen - 1

\* if len(orig_text) < 50
TooShort(doc) == TextLen(doc) < MinTextLen

\* num_sents for the "length" field of the form
NumSents(length_choice) ==
    IF length_choice = "long" THEN 20
    ELSE IF length_choice = "short" THEN 5
    ELSE 10

\* Texts of 0, 41, 49, 50 and more characters
UploadTexts ==
    { << >>,
      << SentA >>,
      << SentA, Rep("c", 7) >>,
      << SentA, Rep("c", 8) >>,
      << SentA, SentB >>,
      << SentSymbols, SentSymbols >>,
      << SentB, SentMixed, SentA >> }

LengthChoices == {"short", "medium", "long"}

\* the uploads: none, an image, a PDF or a text file
Requests ==
    { [kind |-> "none", length |-> "medium", text |-> << >>],
      [kind |-> "image", length |-> "medium", text |-> << >>] }
    \cup [kind : {"pdf", "text"}, length : LengthChoices, text : UploadTexts]

\* one request, nothing called yet
HandlerStart(r) ==
    /\ request = r
    /\ handler_pc = "upload"
    /\ status = 0
    /\ invoked = << >>
    /\ raw_sentences = << >>
    /\ num_sentences = 0
    /\ pc = "idle"
    /\ clean_sentences = << >>
    /\ valid_sentences = << >>
    /\ features = << >>
    /\ scores = << >>
    /\ ranked_indices = << >>
    /\ pos = 0
    /\ selected_indices = << >>
    /\ selected_vectors = << >>
    /\ final_indices = << >>
    /\ result = << >>
    /\ StructIdle

InitSummarize ==
    /\ supervised_model \in {None} \cup Models
    /\ supervised_vectorizer \in {None} \cup Vectorizers
    /\ supervised_model = None => supervised_vectorizer = None
    /\ \E r \in Requests : HandlerStart(r)
    /\ other = NoRequest
    /\ sentence = << >>
    /\ category = ""

\* lines 887-897: abort(400) without a file, else the upload is stored
Upload ==
    /\ handler_pc = "upload"
    /\ IF request.kind = "none"
       THEN status' = 400 /\ handler_pc' = "aborted"
       ELSE status' = status /\ handler_pc' = "dispatch"
    /\ UNCHANGED << globals, genLocals, request, invoked, sentence, category, other,
                    structVars >>

\* lines 912-918: what Gemini returned, here a reply without summary_structure,
\* so that the three defaults are filled in
GeminiStructure ==
    [abstract |-> << "S", "u", "m", "m", "a", "r", "y", " ", "n", "o", "t", " ",
                    "g", "e", "n", "e", "r", "a", "t", "e", "d", "." >>,
     sections |-> << >>, implementation_points |-> << >>]

\* lines 905-918: an image goes to Gemini; abort(500) when that fails
ImageBranch ==
    /\ handler_pc = "dispatch"
    /\ request.kind = "image"
    /\ invoked' = Append(invoked, "process_image_with_gemini")
    /\ \E failed \in BOOLEAN :
          IF failed
          THEN /\ status' = 500
               /\ handler_pc' = "aborted"
               /\ structured_data' = structured_data
          ELSE /\ status' = status
               /\ handler_pc' = "save_pdf"
               /\ structured_data' = GeminiStructure
    /\ UNCHANGED << globals, genLocals, request, sentence, category, other,
                    summary_sentences >>

\* lines 921-933: the text is read or extracted; abort(400) when it is short
ExtractText ==
    /\ handler_pc = "dispatch"
    /\ request.kind \in {"pdf", "text"}
    /\ IF TooShort(request.text)
       THEN status' = 400 /\ handler_pc' = "aborted"
       ELSE status' = status /\ handler_pc' = "call_generate"
    /\ UNCHANGED << globals, genLocals, request, invoked, sentence, category, other,
                    structVars >>

\* lines 935-943: generate_supervised_summary(orig_text, num_sentences=num_sents)
\* is entered
CallGenerate ==
    /\ handler_pc = "call_generate"
    /\ invoked' = Append(invoked, "generate_supervised_summary")
    /\ raw_sentences' = request.text
    /\ num_sentences' = NumSents(request.length)
    /\ pc' = "check_loaded"
    /\ handler_pc' = "in_generate"
    /\ UNCHANGED << globals, clean_sentences, valid_sentences, features, scores,
                    ranked_indices, pos, selected_indices, selected_vectors,
                    final_indices, result, request, status, sentence, category,
                    other, structVars >>

\* line 946: build_structured_summary(raw_summary_list), once the call returned
BuildStructured ==
    /\ handler_pc = "in_generate"
    /\ Returned
    /\ invoked' = Append(invoked, "build_structured_summary")
    /\ summary_sentences' = result
    /\ structured_data' = build_structured_summary(result)
    /\ handler_pc' = "save_pdf"
    /\ UNCHANGED << globals, genLocals, request, status, sentence, category, other >>

\* lines 949-970: save_summary_pdf and the rendered page
SaveAndRender ==
    /\ handler_pc = "save_pdf"
    /\ invoked' = Append(invoked, "save_summary_pdf")
    /\ status' = 200
    /\ handler_pc' = "done"
    /\ UNCHANGED << globals, genLocals, request, sentence, category, other, structVars >>

NextSummarize ==
    \/ Upload
    \/ ImageBranch
    \/ ExtractText
    \/ CallGenerate
    \/ CheckLoaded
    \/ SplitAndClean
    \/ FilterValid
    \/ Vectorize
    \/ Predict
    \/ Rank
    \/ SelectStep
    \/ RestoreOrder
    \/ HandleException
    \/ BuildStructured
    \/ SaveAndRender

SpecSummarize == InitSummarize /\ [][NextSummarize]_vars

Responded == handler_pc \in {"aborted", "done"}

-----------------------------------------------------------------------------
(* Two summarize requests served by two threads of the same process.  The   *)
(* variables hold the locals of the thread that is running, other holds the *)
(* locals of the suspended one; the module globals are the same for both.   *)

\* the locals of the running request
Locals ==
    [request |-> request, handler_pc |-> handler_pc, status |-> status,
     invoked |-> invoked, raw_sentences |-> raw_sentences,
     num_sentences |-> num_sentences, pc |-> pc,
     clean_sentences |-> clean_sentences, valid_sentences |-> valid_sentences,
     features |-> features, scores |-> scores, ranked_indices |-> ranked_indices,
     pos |-> pos, selected_indices |-> selected_indices,
     selected_vectors |-> selected_vectors, final_indices |-> final_indices,
     result |-> result, summary_sentences |-> summary_sentences,
     structured_data |-> structured_data]

\* the locals of a request that has not run yet
StartLocals(r) ==
    [request |-> r, handler_pc |-> "upload", status |-> 0,
     invoked |-> << >>, raw_sentences |-> << >>,
     num_sentences |-> 0, pc |-> "idle",
     clean_sentences |-> << >>, valid_sentences |-> << >>,
     features |-> << >>, scores |-> << >>, ranked_indices |-> << >>,
     pos |-> 0, selected_indices |-> << >>,
     selected_vectors |-> << >>, final_indices |-> << >>,
     result |-> << >>, summary_sentences |-> << >>,
     structured_data |-> EmptyStructure]

\* Variant: selected_vectors is one list of the process, so a resumed thread
\* finds what the other thread left in it
SharedVectors(own, left) == left

\* selected_vectors = [] at line 740 is a local of each call: a resumed thread
\* finds its own list
ResumedVectors(own, left) == own

\* the scheduler suspends the running thread and resumes the other one
Switch ==
    /\ other.handler_pc # "absent"
    /\ other' = Locals
    /\ request' = other.request
    /\ handler_pc' = other.handler_pc
    /\ status' = other.status
    /\ invoked' = other.invoked
    /\ raw_sentences' = other.raw_sentences
    /\ num_sentences' = other.num_sentences
    /\ pc' = other.pc
    /\ clean_sentences' = other.clean_sentences
    /\ valid_sentences' = other.valid_sentences
    /\ features' = other.features
    /\ scores' = other.scores
    /\ ranked_indices' = other.ranked_indices
    /\ pos' = other.pos
    /\ selected_indices' = other.selected_indices
    /\ selected_vectors' = ResumedVectors(other.selected_vectors, selected_vectors)
    /\ final_indices' = other.final_indices
    /\ result' = other.result
    /\ summary_sentences' = other.summary_sentences
    /\ structured_data' = other.structured_data
    /\ UNCHANGED << globals, sentence, category >>

ConcurrentTexts ==
    { << SentA, SentB >>,
      << SentB, SentMixed, SentA >>,
      << SentA, SentA, SentMixed >>,
      << SentSymbols, SentSymbols >> }

ConcurrentRequests ==
    { [kind |-> "image", length |-> "medium", text |-> << >>] }
    \cup [kind : {"text"}, length : {"short"}, text : ConcurrentTexts]

InitConcurrent ==
    /\ supervised_model \in {None} \cup Models
    /\ supervised_vectorizer \in {None} \cup Vectorizers
    /\ supervised_model = None => supervised_vectorizer = None
    /\ \E r \in ConcurrentRequests : HandlerStart(r)
    /\ other \in {StartLocals(r) : r \in ConcurrentRequests}
    /\ sentence = << >>
    /\ category = ""

NextConcurrent ==
    \/ Upload
    \/ ImageBranch
    \/ ExtractText
    \/ CallGenerate
    \/ CheckLoaded
    \/ SplitAndClean
    \/ FilterValid
    \/ Vectorize
    \/ Predict
    \/ Rank
    \/ SelectStep
    \/ RestoreOrder
    \/ HandleException
    \/ BuildStructured
    \/ SaveAndRender
    \/ Switch

SpecConcurrent == InitConcurrent /\ [][NextConcurrent]_vars

-----------------------------------------------------------------------------
(* Vocabulary of the properties *)

SummaryStarted == pc \in {"loop", "ret_summary"}

FilterDone == pc \notin {"check_loaded", "split", "filter", "ret_not_loaded"}

\* The cleaned text of each sentence a document may hold
CleanedOf == [r \in RawSentences |-> clean_text(r)]

\* The positions of the document's sentences that are candidates: cleaned
\* text longer than 30 characters.
CandidatePositions(doc) == {i \in 1..Len(doc) : Len(CleanedOf[doc[i]]) > 30}

HasAlpha(s) == \E i \in 1..Len(s) : s[i] \in Alpha

\* out is exactly the elements of inp at the positions K, in the order of inp
IsSelectionOf(out, inp, K) ==
    /\ Len(out) = Cardinality(K)
    /\ \A i \in K : out[Cardinality({m \in K : m <= i})] = inp[i]

Accepted == Range(selected_indices)

\* the candidates accepted before the one at rank p was examined
AcceptedBefore(p) == {ranked_indices[q] : q \in 1..(p - 1)} \cap Accepted

\* Every candidate examined so far was rejected exactly when its cosine
\* similarity to a vector accepted before it exceeds num / den.
RejectedIffAbove(num, den) ==
    SummaryStarted =>
        \A p \in 1..pos :
            (ranked_indices[p] \notin Accepted) <=>
                \E a \in AcceptedBefore(p) :
                    CosineAbove(features[ranked_indices[p] + 1], features[a + 1], num, den)

-----------------------------------------------------------------------------
(* C1 *)

\* C1: whatever the text, the state of the model and vectorizer and k, the
\* returned list has at most k elements and at most as many elements as
\* there are valid candidate sentences.
C1_SizeWithinKAndCandidates ==
    Returned =>
        /\ Len(result) <= num_sentences
        /\ Len(result) <= Cardinality(CandidatePositions(raw_sentences))

-----------------------------------------------------------------------------
(* C2 *)

\* C2: at every step of the selection loop and in the final result, any two
\* distinct accepted candidates have feature vectors whose cosine similarity
\* is at most the redundancy threshold (each candidate was compared with all
\* the vectors accepted before it).
C2_AcceptedPairwiseNonRedundant ==
    /\ Len(selected_vectors) = Len(selected_indices)
    /\ \A i \in 1..Len(selected_indices) :
          selected_vectors[i] = features[selected_indices[i] + 1]
    /\ \A i, j \in 1..Len(selected_vectors) :
          i # j => ~CosineAbove(selected_vectors[i], selected_vectors[j],
                                ThresholdNum, ThresholdDen)
    /\ \A i, j \in 1..Len(final_indices) :
          i # j => ~CosineAbove(features[final_indices[i] + 1],
                                features[final_indices[j] + 1],
                                ThresholdNum, ThresholdDen)

\* Two candidates were accepted and the third was rejected for its similarity
\* to the first accepted vector, being dissimilar to the most recent one.
C2_Witness ==
    /\ pc = "ret_summary"
    /\ num_sentences >= 3
    /\ pos = 3
    /\ Len(selected_vectors) = 2
    /\ CosineAbove(features[ranked_indices[3] + 1], selected_vectors[1],
                   ThresholdNum, ThresholdDen)
    /\ ~CosineAbove(features[ranked_indices[3] + 1], selected_vectors[2],
                    ThresholdNum, ThresholdDen)

-----------------------------------------------------------------------------
(* C3 *)

\* C3: the ranking is a stable descending sort: scores do not increase along
\* ranked_indices, and of two candidates with equal score the one earlier in
\* the input is ranked first.
C3_StableDescendingRank ==
    SummaryStarted =>
        \A p, q \in 1..Len(ranked_indices) :
            p < q =>
                /\ scores[ranked_indices[p] + 1] >= scores[ranked_indices[q] + 1]
                /\ scores[ranked_indices[p] + 1] = scores[ranked_indices[q] + 1]
                      => ranked_indices[p] < ranked_indices[q]

-----------------------------------------------------------------------------
(* C4 *)

\* C4: when k = 0, or when no sentence passes the candidate filter, the
\* function returns the empty list.
C4_EmptyWhenNothingToSelect ==
    (Returned /\ (num_sentences = 0 \/ CandidatePositions(raw_sentences) = {}))
        => result = << >>

-----------------------------------------------------------------------------
(* C5 *)

\* C5 as stated: a candidate is rejected exactly when its largest cosine
\* similarity to the accepted vectors exceeds 0.65.
C5_RejectedIffAbove065 == RejectedIffAbove(13, 20)

\* C5 as amended: a candidate is rejected exactly when its largest cosine
\* similarity to the vectors accepted before it exceeds 0.70.
C5_RejectedIffAbove070 == RejectedIffAbove(7, 10)

\* Two accepted candidates whose similarity lies between 0.65 and 0.70.
C5_Witness ==
    /\ pc = "ret_summary"
    /\ \E i, j \in 1..Len(selected_vectors) :
          /\ i # j
          /\ CosineAbove(selected_vectors[i], selected_vectors[j], 13, 20)
          /\ ~CosineAbove(selected_vectors[i], selected_vectors[j], 7, 10)

-----------------------------------------------------------------------------
(* C6 *)

\* C6 as stated: the filter keeps a cleaned sentence exactly when it is
\* longer than 40 characters and holds an alphabetic character, and the kept
\* sentences keep their order.
C6_KeepsLongerThan40WithAlpha ==
    FilterDone =>
        IsSelectionOf(valid_sentences, clean_sentences,
                      {i \in 1..Len(clean_sentences) :
                          Len(clean_sentences[i]) > 40 /\ HasAlpha(clean_sentences[i])})

\* C6 as amended: the filter keeps a cleaned sentence exactly when it is
\* longer than 30 characters, alphabetic or not, and the kept sentences keep
\* their order.
C6_KeepsLongerThan30 ==
    FilterDone =>
        IsSelectionOf(valid_sentences, clean_sentences,
                      {i \in 1..Len(clean_sentences) : Len(clean_sentences[i]) > 30})

\* The filter dropped a sentence and kept two, one of at most 40 characters
\* and one without a letter.
C6_Witness ==
    /\ pc = "vectorize"
    /\ Len(valid_sentences) = 2
    /\ Len(clean_sentences) = 3
    /\ \E s \in Range(valid_sentences) : Len(s) <= 40
    /\ \E s \in Range(valid_sentences) : ~HasAlpha(s)

-----------------------------------------------------------------------------
(* C7 *)

\* C7: the returned sentences are in strictly ascending order of their
\* position among the valid candidates, whatever the order of acceptance.
C7_SummaryInCandidateOrder ==
    pc = "ret_summary" =>
        /\ Len(final_indices) = Len(selected_indices)
        /\ Range(final_indices) = Range(selected_indices)
        /\ \A i, j \in 1..Len(final_indices) :
              i < j => final_indices[i] < final_indices[j]
        /\ Len(result) = Len(final_indices)
        /\ \A i \in 1..Len(result) : result[i] = valid_sentences[final_indices[i] + 1]

\* A summary whose sentences were accepted against the document order.
C7_Witness ==
    /\ pc = "ret_summary"
    /\ Len(selected_indices) >= 2
    /\ selected_indices[1] > selected_indices[2]

-----------------------------------------------------------------------------
(* C8 *)

\* C8: every element of the returned list is one of the sentences of the
\* input document.
C8_SummaryFromDocument ==
    Returned => \A i \in 1..Len(result) : result[i] \in Range(raw_sentences)

-----------------------------------------------------------------------------
(* C9 *)

\* C9: when the model or the vectorizer is not loaded, or vectorization or
\* scoring raises, nothing is selected and the returned summary is empty.
C9_EmptySummaryOnScoringFailure ==
    pc \in {"ret_not_loaded", "ret_error"} =>
        /\ selected_indices = << >>
        /\ result = << >>

-----------------------------------------------------------------------------
(* C10 *)

\* C10 as stated: when no sentence passes the filter the function returns the
\* "no valid text" result without scoring or selecting, whether or not the
\* model is loaded.
C10_NoValidTextWhateverTheModel ==
    (Returned /\ CandidatePositions(raw_sentences) = {}) =>
        /\ features = << >> /\ scores = << >> /\ selected_indices = << >>
        /\ result = << MsgNoValidText >>

\* C10 as amended: when no sentence passes the filter the function never
\* scores or selects; it returns the "no valid text" result when the model
\* and the vectorizer are loaded, and the "model not loaded" result otherwise.
C10_NoValidTextWhenLoaded ==
    (Returned /\ CandidatePositions(raw_sentences) = {}) =>
        /\ features = << >> /\ scores = << >> /\ selected_indices = << >>
        /\ result = IF supervised_model = None \/ supervised_vectorizer = None
                    THEN << MsgModelNotLoaded >>
                    ELSE << MsgNoValidText >>

\* A document with sentences, none of which passes the filter, and the model
\* loaded.
C10_Witness ==
    /\ pc = "ret_no_valid"
    /\ Len(raw_sentences) > 0
    /\ supervised_model # None

-----------------------------------------------------------------------------
(* C11 *)

\* C11: the summary holds no two sentences equal by value: two valid
\* candidates with identical text are never both accepted.
C11_NoDuplicateSentences ==
    pc = "ret_summary" =>
        \A i, j \in 1..Len(result) : i # j => result[i] # result[j]

-----------------------------------------------------------------------------
(* C12 *)

\* cosine_similarity(a, b) = 1
CosineIsOne(a, b) ==
    LET d == Dot(a, b) IN d > 0 /\ d * d = Dot(a, a) * Dot(b, b)

\* C12: when all candidate vectors are pairwise at cosine similarity 1 and
\* k > 0, exactly one sentence is accepted, the first of the ranked order.
C12_OneAcceptedWhenAllIdentical ==
    (/\ pc = "ret_summary"
     /\ num_sentences > 0
     /\ \A i, j \in 1..Len(features) : CosineIsOne(features[i], features[j]))
        => /\ selected_indices = << ranked_indices[1] >>
           /\ result = << valid_sentences[ranked_indices[1] + 1] >>

\* Three candidates in the same direction, room for three, one returned.
C12_Witness ==
    /\ pc = "ret_summary"
    /\ num_sentences = 3
    /\ Len(features) = 3
    /\ \A i, j \in 1..Len(features) : CosineIsOne(features[i], features[j])
    /\ Len(result) = 1

-----------------------------------------------------------------------------
(* C18 *)

\* the candidates examined so far and not accepted
Rejected == {ranked_indices[p] : p \in 1..pos} \ Accepted

\* C18: the loop examines the candidates in ranked order, each at most once;
\* once the accepted count has reached k no further candidate is examined;
\* a candidate rejected as redundant is never accepted later in the run.
C18_ExaminedOnceInRankOrder ==
    [][pc = "loop" =>
          /\ ranked_indices' = ranked_indices
          /\ pos' \in {pos, pos + 1}
          /\ Len(selected_indices) >= num_sentences =>
                (pos' = pos /\ selected_indices' = selected_indices)
          /\ pos' = pos => selected_indices' = selected_indices
          /\ pos' = pos + 1 =>
                selected_indices' \in {selected_indices,
                                       Append(selected_indices, ranked_indices[pos + 1])}
          /\ Rejected \subseteq Rejected']_vars

\* A candidate was rejected, a lower-ranked one was accepted after it, and
\* the rejected one is not in the summary.
C18_Witness ==
    /\ pc = "ret_summary"
    /\ \E p, q \in 1..pos :
          /\ p < q
          /\ ranked_indices[p] \notin Accepted
          /\ ranked_indices[q] \in Accepted

-----------------------------------------------------------------------------
(* C19 *)

\* C19: when selection ends with fewer than k accepted sentences, every
\* valid candidate that was not accepted has cosine similarity above the
\* threshold to an accepted candidate ranked above it.
C19_ShortOnlyByRedundancy ==
    (pc = "ret_summary" /\ Len(selected_indices) < num_sentences) =>
        \A p \in 1..Len(valid_sentences) :
            ranked_indices[p] \notin Accepted =>
                \E q \in 1..(p - 1) :
                    /\ ranked_indices[q] \in Accepted
                    /\ CosineAbove(features[ranked_indices[p] + 1],
                                   features[ranked_indices[q] + 1], 7, 10)

\* A summary shorter than k with a candidate left out.
C19_Witness ==
    /\ pc = "ret_summary"
    /\ Len(selected_indices) < num_sentences
    /\ Len(selected_indices) < Len(valid_sentences)

-----------------------------------------------------------------------------
(* C20 *)

\* C20: when k >= 1, a valid candidate exists and scoring succeeds, the
\* first candidate of the ranked order, which has a highest score, is in the
\* returned summary, so the summary is not empty.
C20_TopRankedReturned ==
    (pc = "ret_summary" /\ num_sentences >= 1) =>
        /\ \A i \in 1..Len(scores) : scores[ranked_indices[1] + 1] >= scores[i]
        /\ ranked_indices[1] \in Range(final_indices)
        /\ valid_sentences[ranked_indices[1] + 1] \in Range(result)
        /\ result # << >>

\* The top-ranked candidate is not the first sentence and is returned with
\* another one.
C20_Witness ==
    /\ pc = "ret_summary"
    /\ num_sentences >= 1
    /\ ranked_indices[1] # 0
    /\ Len(result) >= 2
    /\ \E i \in 1..Len(scores) : scores[ranked_indices[1] + 1] > scores[i]

-----------------------------------------------------------------------------
(* C13 *)

\* cosine_similarity(a, b) = 0.9
CosineIsNineTenths(a, b) ==
    LET d == Dot(a, b) IN d > 0 /\ d * d * 100 = 81 * Dot(a, a) * Dot(b, b)

\* Ten sentences, six candidates, k = 3; the two highest-scored candidates
\* are at similarity 0.9 and no other pair is redundant.
C13_Scenario ==
    /\ pc = "ret_summary"
    /\ Len(raw_sentences) = 10
    /\ Len(valid_sentences) = 6
    /\ num_sentences = 3
    /\ scores[ranked_indices[1] + 1] > scores[ranked_indices[2] + 1]
    /\ scores[ranked_indices[2] + 1] > scores[ranked_indices[3] + 1]
    /\ scores[ranked_indices[3] + 1] > scores[ranked_indices[4] + 1]
    /\ scores[ranked_indices[4] + 1] > scores[ranked_indices[5] + 1]
    /\ CosineIsNineTenths(features[ranked_indices[1] + 1], features[ranked_indices[2] + 1])
    /\ \A p, q \in 1..6 :
          (p < q /\ << p, q >> # << 1, 2 >>) =>
              ~CosineAbove(features[ranked_indices[p] + 1],
                           features[ranked_indices[q] + 1], 13, 20)

\* C13: in that scenario the output has exactly three sentences: the
\* higher-scored of the near-duplicate pair and the next two highest-scored
\* candidates, in document order.
C13_EndToEnd ==
    C13_Scenario =>
        /\ Len(result) = 3
        /\ Accepted = {ranked_indices[1], ranked_indices[3], ranked_indices[4]}
        /\ IsSelectionOf(result, valid_sentences,
                         {ranked_indices[1] + 1, ranked_indices[3] + 1,
                          ranked_indices[4] + 1})
        /\ \A i \in 1..3 : result[i] \in Range(clean_sentences)

\* The scenario, with the sentences accepted against the document order.
C13_Witness ==
    /\ C13_Scenario
    /\ Len(result) = 3
    /\ \E i \in 1..2 : selected_indices[i] > selected_indices[i + 1]

-----------------------------------------------------------------------------
(* C15 *)

\* C15 as stated: when the classifier yields unbounded decision scores, the
\* scores used are their min-max rescaling to [0,1], and when all raw scores
\* are equal every score is 1.
C15_DecisionScoresRescaled ==
    (/\ Returned
     /\ supervised_model # None /\ supervised_vectorizer # None
     /\ ~supervised_model.has_predict_proba
     /\ supervised_vectorizer.fitted
     /\ valid_sentences # << >>)
        => /\ pc = "ret_summary"
           /\ Len(scores) = Len(valid_sentences)
           /\ LET raw == [i \in 1..Len(features) |-> Dot(supervised_model.coef, features[i])]
              IN  \A i \in 1..Len(scores) :
                      IF MaxOf(raw) = MinOf(raw)
                      THEN scores[i] = 1
                      ELSE scores[i] * (MaxOf(raw) - MinOf(raw)) = raw[i] - MinOf(raw)

\* C15 as amended: the scores are the values predict_proba gives, never
\* rescaled, so no division occurs; a classifier that yields only decision
\* scores makes scoring raise and the function returns the prediction error
\* result without scores.
C15_ProbabilitiesUsedAsGiven ==
    /\ SummaryStarted =>
          /\ supervised_model.has_predict_proba
          /\ scores = [i \in 1..Len(features) |-> Dot(supervised_model.coef, features[i])]
    /\ (/\ Returned
        /\ supervised_model # None /\ supervised_vectorizer # None
        /\ ~supervised_model.has_predict_proba
        /\ supervised_vectorizer.fitted
        /\ valid_sentences # << >>)
          => /\ pc = "ret_error"
             /\ scores = << >>
             /\ result = << MsgPredictionError >>

\* A classifier without predict_proba was asked to score candidates.
C15_Witness ==
    /\ pc = "ret_error"
    /\ ~supervised_model.has_predict_proba
    /\ Len(features) = 6

-----------------------------------------------------------------------------
(* C14 *)

-----------------------------------------------------------------------------
(* C16 *)

\* C16: in the PDF/text branch of summarize, a document whose extracted text
\* has fewer than 50 characters is answered with status 400, and
\* generate_supervised_summary, build_structured_summary and save_summary_pdf
\* are never invoked for it.
C16_ShortTextRejected ==
    (request.kind \in {"pdf", "text"} /\ TextLen(request.text) < 50) =>
        /\ Range(invoked) \cap {"generate_supervised_summary",
                                "build_structured_summary",
                                "save_summary_pdf"} = {}
        /\ pc = "idle"
        /\ Responded => status = 400
        /\ handler_pc \in {"upload", "dispatch", "aborted"}

\* A text of 49 characters was rejected.
C16_Witness ==
    /\ request.kind \in {"pdf", "text"}
    /\ TextLen(request.text) = 49
    /\ Responded
    /\ status = 400
    /\ invoked = << >>

-----------------------------------------------------------------------------
(* C17 *)

\* the indices accepted after the first p ranked candidates were examined,
\* when nothing but the request's own vectors is compared
RECURSIVE GreedyAccepted(_, _, _, _)
GreedyAccepted(feats, ranked, p, k) ==
    IF p = 0 THEN << >>
    ELSE LET prev == GreedyAccepted(feats, ranked, p - 1, k)
             idx == ranked[p]
         IN  IF Len(prev) >= k THEN prev
             ELSE IF \E a \in Range(prev) :
                        CosineAbove(feats[idx + 1], feats[a + 1], 7, 10)
                  THEN prev
                  ELSE Append(prev, idx)

\* The selection state of the request with locals l is determined by its own
\* document and the globals.
OwnSelection(l) ==
    /\ l.pc # "idle" => l.raw_sentences = l.request.text
    /\ l.pc \in {"loop", "ret_summary"} =>
          /\ IsSelectionOf(l.valid_sentences,
                           [i \in 1..Len(l.raw_sentences) |-> CleanedOf[l.raw_sentences[i]]],
                           CandidatePositions(l.raw_sentences))
          /\ l.features = transform(supervised_vectorizer, l.valid_sentences)
          /\ l.selected_indices =
                GreedyAccepted(l.features, l.ranked_indices, l.pos, l.num_sentences)
          /\ l.selected_vectors =
                [i \in 1..Len(l.selected_indices) |-> l.features[l.selected_indices[i] + 1]]
    /\ l.pc = "ret_summary" =>
          IsSelectionOf(l.result, l.valid_sentences,
                        {i + 1 : i \in Range(l.selected_indices)})

\* C17: under any interleaving of two summarize requests the model and the
\* vectorizer are never written, and the accepted indices and vectors of each
\* request are those its own document gives, whatever the other request does.
C17_RequestsIsolated ==
    /\ [](OwnSelection(Locals) /\ OwnSelection(other))
    /\ [][/\ supervised_model' = supervised_model
          /\ supervised_vectorizer' = supervised_vectorizer]_vars

\* Both requests are inside their selection loop, each has examined
\* candidates, and their accepted vectors differ.
C17_Witness ==
    /\ other.handler_pc = "in_generate"
    /\ handler_pc = "in_generate"
    /\ pc = "loop"
    /\ other.pc = "loop"
    /\ pos > 0
    /\ other.pos > 0
    /\ selected_vectors # << >>
    /\ other.selected_vectors # << >>
    /\ selected_vectors # other.selected_vectors

-----------------------------------------------------------------------------
(* C21 *)

\* the category of each sentence a summary list may hold
CategoryOf == [x \in SummarySentences |-> score_sentence_categories(x)]

\* the title declared for the category k
TitleFor(k) ==
    section_titles[CHOOSE n \in 1..Len(section_titles) : section_titles[n].key = k].title

\* the place of the title t in the declaration order
TitleIndex(t) == CHOOSE n \in 1..Len(section_titles) : section_titles[n].title = t

\* the position of the first occurrence of x in l
FirstIndex(l, x) == CHOOSE i \in 1..Len(l) : l[i] = x /\ \A j \in 1..(i - 1) : l[j] # x

\* C21: the sections build_structured_summary returns partition the distinct
\* input sentences: each distinct sentence is a bullet of exactly one section,
\* the one of its category, and nothing else is a bullet; no section is
\* empty; no bullet is repeated within a section; the sections follow the
\* declared title order; the bullets of a section keep their input order.
C21_SectionsPartitionInput ==
    pc = "structured" =>
        LET secs == structured_data.sections
            inp == summary_sentences
        IN  /\ \A x \in Range(inp) :
                  \E i \in 1..Len(secs) :
                     /\ x \in Range(secs[i].bullets)
                     /\ secs[i].title = TitleFor(CategoryOf[x])
                     /\ \A j \in 1..Len(secs) :
                           j # i => x \notin Range(secs[j].bullets)
            /\ \A i \in 1..Len(secs) :
                  LET b == secs[i].bullets
                  IN  /\ Range(b) \subseteq Range(inp)
                      /\ b # << >>
                      /\ \A m, n \in 1..Len(b) :
                            m < n => /\ b[m] # b[n]
                                     /\ FirstIndex(inp, b[m]) < FirstIndex(inp, b[n])
            /\ \A i, j \in 1..Len(secs) :
                  i < j => TitleIndex(secs[i].title) < TitleIndex(secs[j].title)

\* A list with a repeated sentence gave several sections, one of them with
\* two bullets, and the first section holds a sentence that comes later in
\* the list than one of the second section.
C21_Witness ==
    /\ pc = "structured"
    /\ Cardinality(Range(summary_sentences)) < Len(summary_sentences)
    /\ LET secs == structured_data.sections
       IN  /\ Len(secs) >= 2
           /\ \E i \in 1..Len(secs) : Len(secs[i].bullets) >= 2
           /\ FirstIndex(summary_sentences, secs[1].bullets[1]) >
                 FirstIndex(summary_sentences, secs[2].bullets[1])
====
